---- MODULE Spec2Model ----
(***************************************************************************)
(* Model of the analysis classes of aethon-arion-pipeline:                 *)
(*   StateSpace (trajectory analysis of one simulation run) and            *)
(*   ResultSet  (histogram, entropy and performance over a batch of runs). *)
(* Sequences are 1-based here; the code's index i is position i + 1.       *)
(***************************************************************************)
EXTENDS Integers, Sequences, FiniteSets, TLC

\* ------------------------------------------------------------------ bounds
MaxTicks == 2          \* longest trajectory supplied to the StateSpace constructor
MaxAgents == 2         \* longest agentStates array of a snapshot
MaxCells == 4          \* most state indices in all snapshots of a trajectory together
MaxStateIndex == 1     \* largest raw state index (the smallest is -1)
MaxNames == 2          \* longest state-name list passed to agentStateProbabilities
MaxResults == 3        \* largest batch given to the ResultSet constructor
MaxValue == 2          \* board values of a result range over 0..MaxValue
MaxBinCount == 2       \* explicit bin counts range over -1..MaxBinCount
MaxPerformance == 1    \* a present performance ranges over 1..MaxPerformance
LogBits == 8           \* fraction bits kept of a base-2 logarithm
MaxRequests == 1       \* most calls of Api.request$
MaxSubscriptions == 2  \* most subscriptions to the observables of request$
MaxCallDepth == 3      \* nested calls the call stack holds before a RangeError
MaxModels == 2         \* model instances a Configurator may be constructed with
MaxReads == 2          \* most reads of Configurator.model
MaxSteps == 3          \* most step outputs of a simulation's step stream
MaxOrgState == 1       \* the organisation's state ranges over 0..MaxOrgState

\* ------------------------------------------------------- JavaScript numbers
\* A JavaScript value of the kinds the analysis code computes with: a finite
\* number (an exact fraction n/d, d > 0, in lowest terms), NaN, +/-Infinity
\* (n is the sign) or undefined.
RECURSIVE GCD(_, _)
GCD(a, b) == IF b = 0 THEN a ELSE GCD(b, a % b)

Abs(x) == IF x < 0 THEN -x ELSE x

Sign(x) == IF x < 0 THEN -1 ELSE IF x > 0 THEN 1 ELSE 0

Num(n, d) ==
    LET g == GCD(Abs(n), d)
    IN  [k |-> "num", n |-> n \div g, d |-> d \div g]

Int2Num(i) == [k |-> "num", n |-> i, d |-> 1]

\* -0 is the zero whose d is negative
NegZero == [k |-> "num", n |-> 0, d |-> -1]

NaN == [k |-> "nan", n |-> 0, d |-> 1]

Infinity(s) == [k |-> "inf", n |-> s, d |-> 1]

Undefined == [k |-> "undefined", n |-> 0, d |-> 1]

\* null, as JSON.stringify prints a non-finite number
Null == [k |-> "null", n |-> 0, d |-> 1]

IsFinite(x) == x.k = "num"

IsZero(x) == x.k = "num" /\ x.n = 0

NotANumber(x) == x.k \in {"nan", "undefined"}

\* the sign bit of a finite or infinite number: -1 or 1
SignOf(x) == IF x.n < 0 \/ (x.n = 0 /\ x.d < 0) THEN -1 ELSE 1

Zero(s) == IF s < 0 THEN NegZero ELSE Int2Num(0)

\* x + y on JavaScript numbers (undefined and null operands are not produced
\* by the analysis code except undefined, which converts to NaN)
JsAdd(x, y) ==
    IF NotANumber(x) \/ NotANumber(y) THEN NaN
    ELSE IF x.k = "inf" /\ y.k = "inf" THEN (IF x.n = y.n THEN x ELSE NaN)
    ELSE IF x.k = "inf" THEN x
    ELSE IF y.k = "inf" THEN y
    ELSE IF IsZero(x) /\ IsZero(y)
         THEN (IF SignOf(x) < 0 /\ SignOf(y) < 0 THEN NegZero ELSE Int2Num(0))
    ELSE Num(x.n * Abs(y.d) + y.n * Abs(x.d), Abs(x.d) * Abs(y.d))

\* -x
JsNeg(x) ==
    IF NotANumber(x) THEN NaN
    ELSE IF x.k = "inf" THEN Infinity(-x.n)
    ELSE IF IsZero(x) THEN Zero(-SignOf(x))
    ELSE [x EXCEPT !.n = -x.n]

\* x - y
JsSub(x, y) == JsAdd(x, JsNeg(y))

\* x * y
JsMul(x, y) ==
    IF NotANumber(x) \/ NotANumber(y) THEN NaN
    ELSE IF x.k = "inf" \/ y.k = "inf"
         THEN (IF IsZero(x) \/ IsZero(y) THEN NaN ELSE Infinity(SignOf(x) * SignOf(y)))
    ELSE IF x.n * y.n = 0 THEN Zero(SignOf(x) * SignOf(y))
    ELSE Num(x.n * y.n, x.d * y.d)

\* x / y on JavaScript numbers: 0/0 is NaN, x/0 is +/-Infinity, never an error
JsDiv(x, y) ==
    IF NotANumber(x) \/ NotANumber(y) THEN NaN
    ELSE IF x.k = "inf" /\ y.k = "inf" THEN NaN
    ELSE IF x.k = "inf" THEN Infinity(SignOf(x) * SignOf(y))
    ELSE IF y.k = "inf" THEN Zero(SignOf(x) * SignOf(y))
    ELSE IF IsZero(y) THEN (IF IsZero(x) THEN NaN ELSE Infinity(SignOf(x) * SignOf(y)))
    ELSE IF IsZero(x) THEN Zero(SignOf(x) * SignOf(y))
    ELSE Num(Sign(y.n) * x.n * y.d, x.d * Abs(y.n))

\* Math.floor(x)
JsFloor(x) ==
    IF NotANumber(x) THEN NaN
    ELSE IF x.k = "inf" \/ IsZero(x) THEN x
    ELSE Int2Num(x.n \div x.d)

\* x === y on numbers: NaN equals nothing, -0 equals 0
JsStrictEq(x, y) ==
    /\ x.k /= "nan"
    /\ y.k /= "nan"
    /\ \/ x = y
       \/ IsZero(x) /\ IsZero(y)

\* x < y: false when either side is NaN
JsLess(x, y) ==
    IF NotANumber(x) \/ NotANumber(y) THEN FALSE
    ELSE IF x.k = "inf" THEN x.n < 0 /\ ~(y.k = "inf" /\ y.n < 0)
    ELSE IF y.k = "inf" THEN y.n > 0
    ELSE x.n * Abs(y.d) < y.n * Abs(x.d)

\* ------------------------------------------------------------- StateSpace
VARIABLES
    ssPc,          \* "new" before the constructor has run, "constructed" after
    ssInput,       \* the argument given to the StateSpace constructor
    ssThis,        \* the elements of the StateSpace array (this[0..length-1])
    agentCount,    \* StateSpace._agentCount
    ssRet          \* the outcome of the last StateSpace method call

ssVars == <<ssPc, ssInput, ssThis, agentCount, ssRet>>

StateIndexes == (-1) .. MaxStateIndex

\* sequences over S of length 0..n
RECURSIVE SeqsUpTo(_, _)
SeqsUpTo(S, n) ==
    IF n = 0 THEN {<<>>}
    ELSE LET shorter == SeqsUpTo(S, n - 1)
         IN  shorter \cup {Append(s, x) : s \in {q \in shorter : Len(q) = n - 1}, x \in S}

\* A snapshot as far as the StateSpace reads it: whether the agentStates
\* property exists, and its elements.
StateSpacePointDTO ==
    {[hasAgentStates |-> FALSE, agentStates |-> <<>>]} \cup
    {[hasAgentStates |-> TRUE, agentStates |-> s] : s \in SeqsUpTo(StateIndexes, MaxAgents)}

\* the trajectories of at most ticks snapshots holding at most cells state
\* indices together
RECURSIVE Trajectories(_, _)
Trajectories(ticks, cells) ==
    IF ticks = 0 THEN {<<>>}
    ELSE {<<>>} \cup
         UNION {{<<point>> \o rest :
                    rest \in Trajectories(ticks - 1, cells - Len(point.agentStates))} :
                point \in {q \in StateSpacePointDTO : Len(q.agentStates) <= cells}}

\* The constructor argument: StateSpacePointDTO[] | undefined
StateSpaceInputs ==
    {[defined |-> FALSE, points |-> <<>>]} \cup
    {[defined |-> TRUE, points |-> p] : p \in Trajectories(MaxTicks, MaxCells)}

\* The agentStatesArray argument: only its presence and length are read.
StateNameLists ==
    {[defined |-> FALSE, length |-> 0]} \cup
    {[defined |-> TRUE, length |-> n] : n \in 0 .. MaxNames}

Returned(v) == [raised |-> FALSE, value |-> v]

Raised == [raised |-> TRUE, value |-> <<>>]

NoCall == [op |-> "none", names |-> [defined |-> FALSE, length |-> 0], raised |-> FALSE, value |-> <<>>]

\* Utils.tensor([rows, cols], () => 0) as used by the StateSpace methods
ZeroMatrix(rows, cols) == [a \in 1 .. rows |-> [s \in 1 .. cols |-> 0]]

\* point.agentStates[alpha] for the 1-based agent position a
ReadAgentState(point, a) ==
    IF a <= Len(point.agentStates) THEN Int2Num(point.agentStates[a]) ELSE Undefined

\* the constructor without the existence check: this[0].agentStates.length
ConstructAgentCount_Unchecked(points) ==
    IF Len(points) > 0
    THEN IF points[1].hasAgentStates THEN Returned(Len(points[1].agentStates)) ELSE Raised
    ELSE Returned(0)

\* constructor: the agent count read off the first element, this[0]?.agentStates
ConstructAgentCount(points) ==
    IF Len(points) > 0 /\ points[1].hasAgentStates
    THEN Returned(Len(points[1].agentStates))
    ELSE Returned(0)

\* the bounds check with agentState > 0 in place of agentState >= 0
RECURSIVE CountAgents_ExclusiveLowerBound(_, _, _, _)
CountAgents_ExclusiveLowerBound(acc, states, i, nameCount) ==
    IF acc.raised \/ i > Len(states) THEN acc
    ELSE LET agentState == states[i]
         IN  IF agentState > 0 /\ agentState < nameCount
             THEN IF i > Len(acc.value)
                  THEN Raised
                  ELSE CountAgents_ExclusiveLowerBound(
                           Returned([acc.value EXCEPT ![i][agentState + 1] = @ + 1]),
                           states, i + 1, nameCount)
             ELSE CountAgents_ExclusiveLowerBound(acc, states, i + 1, nameCount)

\* The inner forEach of agentStateProbabilities over one snapshot, from agent
\* position i on: counts[agentIndex][agentState]++ under the bounds check.
\* Indexing a row that does not exist raises a TypeError.
RECURSIVE CountAgents(_, _, _, _)
CountAgents(acc, states, i, nameCount) ==
    IF acc.raised \/ i > Len(states) THEN acc
    ELSE LET agentState == states[i]
         IN  IF agentState >= 0 /\ agentState < nameCount
             THEN IF i > Len(acc.value)
                  THEN Raised
                  ELSE CountAgents(
                           Returned([acc.value EXCEPT ![i][agentState + 1] = @ + 1]),
                           states, i + 1, nameCount)
             ELSE CountAgents(acc, states, i + 1, nameCount)

\* The outer forEach over the snapshots, from tick position tau on; reading
\* .forEach of a missing agentStates raises a TypeError.
RECURSIVE CountPoints(_, _, _, _)
CountPoints(acc, this, tau, nameCount) ==
    IF acc.raised \/ tau > Len(this) THEN acc
    ELSE IF ~this[tau].hasAgentStates THEN Raised
    ELSE CountPoints(CountAgents(acc, this[tau].agentStates, 1, nameCount),
                     this, tau + 1, nameCount)

\* each row divided by its number of valid observations instead of this.length
agentStateProbabilities_DivideByValid(this, count, names) ==
    IF names.defined /\ names.length > 0 /\ Len(this) > 0
    THEN LET counted == CountPoints(Returned(ZeroMatrix(count, names.length)),
                                    this, 1, names.length)
             rowTotal(row) == LET sum[i \in 0 .. Len(row)] ==
                                      IF i = 0 THEN 0 ELSE sum[i - 1] + row[i]
                              IN  sum[Len(row)]
         IN  IF counted.raised THEN Raised
             ELSE Returned([a \in 1 .. count |-> [s \in 1 .. names.length |->
                      JsDiv(Int2Num(counted.value[a][s]),
                            Int2Num(rowTotal(counted.value[a])))]])
    ELSE Returned(<< <<>> >>)

\* the guard without the this.length > 0 test
agentStateProbabilities_NoLengthGuard(this, count, names) ==
    IF names.defined /\ names.length > 0
    THEN LET counted == CountPoints(Returned(ZeroMatrix(count, names.length)),
                                    this, 1, names.length)
         IN  IF counted.raised THEN Raised
             ELSE Returned([a \in 1 .. count |-> [s \in 1 .. names.length |->
                      JsDiv(Int2Num(counted.value[a][s]), Int2Num(Len(this)))]])
    ELSE Returned(<< <<>> >>)

agentStateProbabilities(this, count, names) ==
    IF names.defined /\ names.length > 0 /\ Len(this) > 0
    THEN LET counted == CountPoints(Returned(ZeroMatrix(count, names.length)),
                                    this, 1, names.length)
         IN  IF counted.raised THEN Raised
             ELSE Returned([a \in 1 .. count |-> [s \in 1 .. names.length |->
                      JsDiv(Int2Num(counted.value[a][s]), Int2Num(Len(this)))]])
    ELSE Returned(<< <<>> >>)

\* the tensor filled tick-major, states[tau][alpha]
agentStates_TickMajor(this, count) ==
    IF count > 0 /\ \E tau \in 1 .. Len(this) : ~this[tau].hasAgentStates
    THEN Raised
    ELSE Returned([tau \in 1 .. Len(this) |-> [alpha \in 1 .. count |->
             ReadAgentState(this[tau], alpha)]])

agentStates(this, count) ==
    IF count > 0 /\ \E tau \in 1 .. Len(this) : ~this[tau].hasAgentStates
    THEN Raised
    ELSE Returned([alpha \in 1 .. count |-> [tau \in 1 .. Len(this) |->
             ReadAgentState(this[tau], alpha)]])

\* the sum with negative state indices skipped
RECURSIVE SumStates_SkipNegative(_, _, _)
SumStates_SkipNegative(this, alpha, tau) ==
    IF tau = 0 THEN Int2Num(0)
    ELSE LET state == ReadAgentState(this[tau], alpha)
         IN  IF IsFinite(state) /\ state.n < 0
             THEN SumStates_SkipNegative(this, alpha, tau - 1)
             ELSE JsAdd(SumStates_SkipNegative(this, alpha, tau - 1), state)

\* averageValues[alpha] after adding the states of ticks 1..tau
RECURSIVE SumStates(_, _, _)
SumStates(this, alpha, tau) ==
    IF tau = 0 THEN Int2Num(0)
    ELSE JsAdd(SumStates(this, alpha, tau - 1), ReadAgentState(this[tau], alpha))

agentStateAverage(this, count) ==
    IF Len(this) > 0
    THEN IF count > 0 /\ \E tau \in 1 .. Len(this) : ~this[tau].hasAgentStates
         THEN Raised
         ELSE Returned([alpha \in 1 .. count |->
                  JsDiv(SumStates(this, alpha, Len(this)), Int2Num(Len(this)))])
    ELSE Returned([alpha \in 1 .. count |-> Int2Num(0)])

\* matrix[alpha][beta] after the tau loop over ticks 1..tau, before the division
RECURSIVE CoordinationCount(_, _, _, _)
CoordinationCount(this, alpha, beta, tau) ==
    IF tau = 0 THEN 0
    ELSE CoordinationCount(this, alpha, beta, tau - 1) +
         (IF JsStrictEq(ReadAgentState(this[tau], alpha), ReadAgentState(this[tau], beta))
          THEN 1 ELSE 0)

\* the iteration without the mirrored update of matrix[beta][alpha]
CoordinationCell_NoMirror(this, a, b) ==
    IF a <= b
    THEN JsDiv(Int2Num(CoordinationCount(this, a, b, Len(this))), Int2Num(Len(this)))
    ELSE Int2Num(0)

\* The cell the (alpha, beta) iteration with alpha <= beta leaves in
\* matrix[alpha][beta] and, mirrored, in matrix[beta][alpha].
CoordinationCell(this, a, b) ==
    LET alpha == IF a <= b THEN a ELSE b
        beta  == IF a <= b THEN b ELSE a
    IN  JsDiv(Int2Num(CoordinationCount(this, alpha, beta, Len(this))), Int2Num(Len(this)))

agentStateCoordinationMatrix(this, count) ==
    IF count > 0 /\ \E tau \in 1 .. Len(this) : ~this[tau].hasAgentStates
    THEN Raised
    ELSE Returned([a \in 1 .. count |-> [b \in 1 .. count |-> CoordinationCell(this, a, b)]])

\* the JSON text of plain snapshots, as the data JSON.parse reads back: a
\* snapshot without agentStates prints without that property
StringifyPoints(points) ==
    [tau \in 1 .. Len(points) |->
        [hasAgentStates |-> points[tau].hasAgentStates,
         agentStates |-> IF points[tau].hasAgentStates
                         THEN [a \in 1 .. Len(points[tau].agentStates) |->
                                  points[tau].agentStates[a]]
                         ELSE <<>>]]

\* StateSpace.toJSON at call depth `depth`, and JSON.stringify of a
\* StateSpace: JSON.stringify calls the toJSON method of the value it is
\* given and prints what that returns, and toJSON calls JSON.stringify(this).
\* A call beyond the depth the stack holds raises a RangeError.
RECURSIVE toJSON(_, _)
RECURSIVE JsonStringifyStateSpace(_, _)
JsonStringifyStateSpace(this, depth) ==
    LET replaced == toJSON(this, depth + 1)
    IN  IF replaced.raised THEN Raised
        ELSE Returned(StringifyPoints(replaced.value))

toJSON(this, depth) ==
    IF depth > MaxCallDepth THEN Raised
    ELSE LET text == JsonStringifyStateSpace(this, depth)
         IN  IF text.raised THEN Raised
             ELSE Returned(text.value)

\* --------------------------------------------------------------- ResultSet
VARIABLES
    rsPc,               \* "new", "constructed", or "threw"
    rsInput,            \* the arguments given to the ResultSet constructor
    results,            \* ResultSet.results
    histogramBinCount,  \* ResultSet.histogramBinCount
    histogram,          \* ResultSet.histogram: null, or a map from key to number
    histogramMin,       \* ResultSet.histogramMin
    histogramMax,       \* ResultSet.histogramMax
    histogramBinSizes,  \* ResultSet.histogramBinSizes
    rsRet               \* the outcome of the last ResultSet method call

rsVars == <<rsPc, rsInput, results, histogramBinCount, histogram, histogramMin,
            histogramMax, histogramBinSizes, rsRet>>

\* histogramBinCount: number = 100
DefaultHistogramBinCount == 100

\* A result as far as the ResultSet reads it. Every result of the model has
\* the same shape: one board value, one agent state, no plant or reporting
\* value and a 1 x 1 x 1 priority tensor.
Result(b, t, pf) ==
    [board |-> <<b>>, agentStates |-> <<0>>, plant |-> <<>>, reporting |-> <<>>,
     priorityTensor |-> << << <<t>> >> >>,
     hasPerformance |-> pf.has, performance |-> pf.value]

NoPerformance == [has |-> FALSE, value |-> 0]

Performances ==
    {NoPerformance} \cup {[has |-> TRUE, value |-> p] : p \in 1 .. MaxPerformance}

\* The batches given to the constructor: the results of a batch differ either
\* in their state (board value and priority) or in their performance.
ResultBatches ==
    SeqsUpTo({Result(b, t, NoPerformance) : b \in 0 .. MaxValue, t \in 0 .. 1}, MaxResults)
    \cup SeqsUpTo({Result(0, 0, pf) : pf \in Performances}, MaxResults)

\* the histogramBinCount argument: a number, or undefined for the default
BinCountArgs ==
    {[defined |-> FALSE, value |-> 0]} \cup
    {[defined |-> TRUE, value |-> c] : c \in (-1) .. MaxBinCount}

NullHistogram == [present |-> FALSE, map |-> <<>>]

\* Array.prototype.flat() on an array of arrays
RECURSIVE Flat(_)
Flat(arrays) ==
    IF Len(arrays) = 0 THEN <<>> ELSE Head(arrays) \o Flat(Tail(arrays))

\* JSON.stringify of an array of numbers, as the sequence of the printed
\* numbers: a finite number prints as its value (-0 as 0), any other as null.
JsonStringify(vector) ==
    [i \in 1 .. Len(vector) |->
        IF ~IsFinite(vector[i]) THEN Null
        ELSE IF IsZero(vector[i]) THEN Int2Num(0)
        ELSE vector[i]]

\* JSON.parse of such a text
JsonParse(text) == text

\* the state vector the constructor builds for one result
StateVector(result) ==
    LET raw == JsonParse(JsonStringify([i \in 1 .. Len(result.board) |->
                                            Int2Num(result.board[i])]))
        rest == result.agentStates \o result.plant \o result.reporting
                    \o Flat(Flat(result.priorityTensor))
    IN  raw \o [i \in 1 .. Len(rest) |-> Int2Num(rest[i])]

\* the bin size divided out with no test of the bin count
ScanElement_NoZeroGuard(st, stateVector, i, binCount) ==
    LET newMin == IF JsLess(stateVector[i], st.min[i])
                  THEN [st.min EXCEPT ![i] = stateVector[i]] ELSE st.min
        newMax == IF JsLess(st.max[i], stateVector[i])
                  THEN [st.max EXCEPT ![i] = stateVector[i]] ELSE st.max
        size == JsDiv(JsSub(newMax[i], newMin[i]), Int2Num(binCount))
    IN  [min |-> newMin, max |-> newMax,
         binSizes |-> IF i > Len(st.binSizes)
                      THEN Append(st.binSizes, size)
                      ELSE [st.binSizes EXCEPT ![i] = size]]

\* the bin size set from the range as it was before this element was compared
ScanElement_StaleRange(st, stateVector, i, binCount) ==
    LET newMin == IF JsLess(stateVector[i], st.min[i])
                  THEN [st.min EXCEPT ![i] = stateVector[i]] ELSE st.min
        newMax == IF JsLess(st.max[i], stateVector[i])
                  THEN [st.max EXCEPT ![i] = stateVector[i]] ELSE st.max
        size == IF binCount > 0
                THEN JsDiv(JsSub(st.max[i], st.min[i]), Int2Num(binCount))
                ELSE Int2Num(0)
    IN  [min |-> newMin, max |-> newMax,
         binSizes |-> IF i > Len(st.binSizes)
                      THEN Append(st.binSizes, size)
                      ELSE [st.binSizes EXCEPT ![i] = size]]

\* One step of the inner min/max loop for element i of a state vector: it
\* lowers the minimum, raises the maximum and then sets the bin size of i.
ScanElement(st, stateVector, i, binCount) ==
    LET newMin == IF JsLess(stateVector[i], st.min[i])
                  THEN [st.min EXCEPT ![i] = stateVector[i]] ELSE st.min
        newMax == IF JsLess(st.max[i], stateVector[i])
                  THEN [st.max EXCEPT ![i] = stateVector[i]] ELSE st.max
        size == IF binCount > 0
                THEN JsDiv(JsSub(newMax[i], newMin[i]), Int2Num(binCount))
                ELSE Int2Num(0)
    IN  [min |-> newMin, max |-> newMax,
         binSizes |-> IF i > Len(st.binSizes)
                      THEN Append(st.binSizes, size)
                      ELSE [st.binSizes EXCEPT ![i] = size]]

RECURSIVE ScanVector(_, _, _, _)
ScanVector(st, stateVector, i, binCount) ==
    IF i > Len(stateVector) THEN st
    ELSE ScanVector(ScanElement(st, stateVector, i, binCount), stateVector, i + 1, binCount)

RECURSIVE ScanVectors(_, _, _, _)
ScanVectors(st, stateVectors, v, binCount) ==
    IF v > Len(stateVectors) THEN st
    ELSE ScanVectors(ScanVector(st, stateVectors[v], 1, binCount), stateVectors, v + 1, binCount)

\* the bin index pushed in place of the quantised value
quantiseStateVector_BinIndex(stateVector, min, binSizes) ==
    [i \in 1 .. Len(stateVector) |->
        IF ~JsStrictEq(binSizes[i], Int2Num(0))
        THEN JsFloor(JsDiv(JsSub(stateVector[i], min[i]), binSizes[i]))
        ELSE Int2Num(0)]

\* ResultSet._quantiseStateVector
quantiseStateVector(stateVector, min, binSizes) ==
    [i \in 1 .. Len(stateVector) |->
        LET binIndex == IF ~JsStrictEq(binSizes[i], Int2Num(0))
                        THEN JsFloor(JsDiv(JsSub(stateVector[i], min[i]), binSizes[i]))
                        ELSE Int2Num(0)
        IN  JsAdd(JsMul(binIndex, binSizes[i]), min[i])]

\* the frequency loop keyed on the state vector as given, not quantised
RECURSIVE CountVectors_RawKey(_, _, _, _, _)
CountVectors_RawKey(map, stateVectors, v, min, binSizes) ==
    IF v > Len(stateVectors) THEN map
    ELSE LET indexVectorKey == JsonStringify(stateVectors[v])
         IN  CountVectors_RawKey(
                 IF indexVectorKey \in DOMAIN map
                 THEN [map EXCEPT ![indexVectorKey] = @ + 1]
                 ELSE map @@ (indexVectorKey :> 1),
                 stateVectors, v + 1, min, binSizes)

\* the frequency loop entering a new key with count 0
RECURSIVE CountVectors_FromZero(_, _, _, _, _)
CountVectors_FromZero(map, stateVectors, v, min, binSizes) ==
    IF v > Len(stateVectors) THEN map
    ELSE LET indexVectorKey ==
                 JsonStringify(quantiseStateVector(stateVectors[v], min, binSizes))
         IN  CountVectors_FromZero(
                 IF indexVectorKey \in DOMAIN map
                 THEN [map EXCEPT ![indexVectorKey] = @ + 1]
                 ELSE map @@ (indexVectorKey :> 0),
                 stateVectors, v + 1, min, binSizes)

\* the frequency loop over the state vectors from position v on
RECURSIVE CountVectors(_, _, _, _, _)
CountVectors(map, stateVectors, v, min, binSizes) ==
    IF v > Len(stateVectors) THEN map
    ELSE LET indexVectorKey ==
                 JsonStringify(quantiseStateVector(stateVectors[v], min, binSizes))
         IN  CountVectors(
                 IF indexVectorKey \in DOMAIN map
                 THEN [map EXCEPT ![indexVectorKey] = @ + 1]
                 ELSE map @@ (indexVectorKey :> 1),
                 stateVectors, v + 1, min, binSizes)

\* the single-point branch chosen on the first dimension alone
CountFrequencies_FirstDimension(stateVectors, min, max, binSizes) ==
    IF Len(max) > 0 /\ JsonStringify(<<max[1]>>) /= JsonStringify(<<min[1]>>)
    THEN CountVectors(<<>>, stateVectors, 1, min, binSizes)
    ELSE (JsonStringify(max) :> Len(stateVectors))

\* the frequency map before normalisation
CountFrequencies(stateVectors, min, max, binSizes) ==
    IF JsonStringify(max) /= JsonStringify(min)
    THEN CountVectors(<<>>, stateVectors, 1, min, binSizes)
    ELSE (JsonStringify(max) :> Len(stateVectors))

\* every count divided by the number of buckets
Normalise_ByBucketCount(map, n) ==
    [key \in DOMAIN map |-> JsDiv(Int2Num(map[key]), Int2Num(Cardinality(DOMAIN map)))]

\* the normalisation loop: every count divided by stateVectors.length
Normalise(map, n) ==
    [key \in DOMAIN map |-> JsDiv(Int2Num(map[key]), Int2Num(n))]

\* The fields the constructor leaves for a batch and a bin count.
ConstructResultSet(batch, binCount) ==
    IF Len(batch) = 0
    THEN [histogram |-> NullHistogram, min |-> <<>>, max |-> <<>>, binSizes |-> <<>>]
    ELSE LET stateVectors == [v \in 1 .. Len(batch) |-> StateVector(batch[v])]
             first == JsonParse(JsonStringify(stateVectors[1]))
             scanned == ScanVectors([min |-> first, max |-> first, binSizes |-> <<>>],
                                    stateVectors, 1, binCount)
             counts == CountFrequencies(stateVectors, scanned.min, scanned.max,
                                        scanned.binSizes)
         IN  [histogram |-> [present |-> TRUE,
                             map |-> Normalise(counts, Len(stateVectors))],
              min |-> scanned.min, max |-> scanned.max, binSizes |-> scanned.binSizes]

\* floor(log2(n/d)) for n, d > 0, with the operand scaled into [1, 2)
RECURSIVE Log2Exponent(_, _)
Log2Exponent(n, d) ==
    IF n >= 2 * d THEN LET r == Log2Exponent(n, 2 * d) IN [r EXCEPT !.e = @ + 1]
    ELSE IF n < d THEN LET r == Log2Exponent(2 * n, d) IN [r EXCEPT !.e = @ - 1]
    ELSE [e |-> 0, n |-> n, d |-> d]

Log2Scale == 2 ^ 12

\* the first j fraction bits of log2(y / Log2Scale), y / Log2Scale in [1, 2)
RECURSIVE Log2Fraction(_, _)
Log2Fraction(y, j) ==
    IF j = 0 THEN 0
    ELSE LET sq == (y * y) \div Log2Scale
         IN  IF sq >= 2 * Log2Scale
             THEN 2 ^ (j - 1) + Log2Fraction(sq \div 2, j - 1)
             ELSE Log2Fraction(sq, j - 1)

\* Math.log2(x), finite results truncated to LogBits fraction bits; exact on
\* powers of two, -Infinity at 0 and NaN below 0
JsLog2(x) ==
    IF NotANumber(x) THEN NaN
    ELSE IF x.k = "inf" THEN (IF x.n > 0 THEN x ELSE NaN)
    ELSE IF IsZero(x) THEN Infinity(-1)
    ELSE IF x.n < 0 THEN NaN
    ELSE LET r == Log2Exponent(x.n, x.d)
             frac == Log2Fraction((r.n * Log2Scale) \div r.d, LogBits)
         IN  Num(r.e * (2 ^ LogBits) + frac, 2 ^ LogBits)

\* the entropy loop over the histogram values in keys
RECURSIVE EntropySum(_, _)
EntropySum(map, keys) ==
    IF keys = {} THEN Int2Num(0)
    ELSE LET key == CHOOSE q \in keys : TRUE
             likelihood == map[key]
             entropy == EntropySum(map, keys \ {key})
         IN  IF JsLess(Int2Num(0), likelihood)
             THEN JsAdd(entropy, JsMul(likelihood, JsLog2(likelihood)))
             ELSE entropy

\* getEntropy without the null test: iterating a null histogram raises
getEntropy_NoNullGuard(hist) ==
    IF hist.present
    THEN Returned(JsNeg(EntropySum(hist.map, DOMAIN hist.map)))
    ELSE Raised

\* getEntropy returning the sum as accumulated, without the negation
getEntropy_NoNegation(hist) ==
    IF hist.present
    THEN Returned(EntropySum(hist.map, DOMAIN hist.map))
    ELSE Returned(Null)

getEntropy(hist) ==
    IF hist.present
    THEN Returned(JsNeg(EntropySum(hist.map, DOMAIN hist.map)))
    ELSE Returned(Null)

IntSqrt(n) == CHOOSE r \in 0 .. n : r * r <= n /\ n < (r + 1) * (r + 1)

\* Math.sqrt(x) for x >= 0: exact when numerator and denominator are perfect
\* squares, otherwise kept as the root of n/d
JsSqrt(x) ==
    IF NotANumber(x) THEN NaN
    ELSE IF x.k = "inf" THEN (IF x.n > 0 THEN x ELSE NaN)
    ELSE IF IsZero(x) THEN x
    ELSE IF x.n < 0 THEN NaN
    ELSE LET rn == IntSqrt(x.n)
             rd == IntSqrt(x.d)
         IN  IF rn * rn = x.n /\ rd * rd = x.d THEN Num(rn, rd)
             ELSE [k |-> "sqrt", n |-> x.n, d |-> x.d]

\* the performance vector with the results lacking a performance left out
PerformanceVector_SkipMissing(batch) ==
    LET Truthy(result) == result.hasPerformance /\ result.performance /= 0
        kept == SelectSeq(batch, Truthy)
    IN  [i \in 1 .. Len(kept) |-> Int2Num(kept[i].performance)]

\* the performance vector: result.performance when truthy, else 0
PerformanceVector(batch) ==
    [i \in 1 .. Len(batch) |->
        IF batch[i].hasPerformance /\ batch[i].performance /= 0
        THEN Int2Num(batch[i].performance)
        ELSE Int2Num(0)]

\* vector.reduce((acc, val) => acc + val, 0) over the first i elements
RECURSIVE ReduceSum(_, _)
ReduceSum(vector, i) ==
    IF i = 0 THEN Int2Num(0) ELSE JsAdd(ReduceSum(vector, i - 1), vector[i])

\* getPerformance with the squared deviations divided by n, not by n - 1
getPerformance_PopulationStDev(batch) ==
    LET performanceVector == PerformanceVector(batch)
        n == Len(performanceVector)
    IN  IF n > 0
        THEN LET avgPerformance == JsDiv(ReduceSum(performanceVector, n), Int2Num(n))
                 squares == [i \in 1 .. n |->
                                LET dev == JsSub(performanceVector[i], avgPerformance)
                                IN  JsMul(dev, dev)]
             IN  Returned([avgPerformance |-> avgPerformance,
                           stDevPerformance |->
                               IF n > 2
                               THEN JsSqrt(JsDiv(ReduceSum(squares, n), Int2Num(n)))
                               ELSE Null])
        ELSE Returned([avgPerformance |-> Null, stDevPerformance |-> Null])

getPerformance(batch) ==
    LET performanceVector == PerformanceVector(batch)
        n == Len(performanceVector)
    IN  IF n > 0
        THEN LET avgPerformance == JsDiv(ReduceSum(performanceVector, n), Int2Num(n))
                 squares == [i \in 1 .. n |->
                                LET dev == JsSub(performanceVector[i], avgPerformance)
                                IN  JsMul(dev, dev)]
             IN  Returned([avgPerformance |-> avgPerformance,
                           stDevPerformance |->
                               IF n > 2
                               THEN JsSqrt(JsDiv(ReduceSum(squares, n), Int2Num(n - 1)))
                               ELSE Null])
        ELSE Returned([avgPerformance |-> Null, stDevPerformance |-> Null])

getSummary(batch, hist) ==
    LET performance == getPerformance(batch)
        entropy == getEntropy(hist)
    IN  IF performance.raised \/ entropy.raised THEN Raised
        ELSE Returned([avgPerformance |-> performance.value.avgPerformance,
                       stDevPerformance |-> performance.value.stDevPerformance,
                       entropy |-> entropy.value])

\* --------------------------------------------------------------------- Api
VARIABLES
    apiHeap,           \* the error objects created so far, by reference
    apiObservables,    \* the observables request$ has returned
    apiSubscriptions,  \* the subscriptions to them, with what each observed
    apiLog,            \* the entries given to Logger.error, in call order
    apiHttpCalls       \* the HttpClient methods request$ has called, in order

apiVars == <<apiHeap, apiObservables, apiSubscriptions, apiLog, apiHttpCalls>>

\* private _name: string = "API"
ApiName == "API"

\* the literal part of `Invalid request for operationId: ${operationId}`
InvalidRequestText == "Invalid request for operationId: "

\* the literal part of `Unsupported HTTP method: ${request.endpoint.method}`
UnsupportedMethodText == "Unsupported HTTP method: "

\* error?.message || "Unknown error"
UnknownErrorText == "Unknown error"

\* A string is the sequence of the pieces it was concatenated from.
IsEmptyString(text) == \A i \in DOMAIN text : text[i] = ""

OperationIds == {"invalidOperation"}

\* the methods an endpoint may carry: the four of HttpMethod and one other
EndpointMethods == {"GET", "POST", "PATCH", "DELETE", "INVALID_METHOD"}

\* what this._api.getRequest(operationId, options) returns
NoRequest == [defined |-> FALSE, method |-> ""]

RequestResolutions == {NoRequest} \cup {[defined |-> TRUE, method |-> m] : m \in EndpointMethods}

\* A thrown value: null, undefined, or a reference to an object of the heap.
NullError == [kind |-> "null", ref |-> 0]

UndefinedError == [kind |-> "undefined", ref |-> 0]

ObjectError(ref) == [kind |-> "object", ref |-> ref]

\* An object as far as the Api reads or writes it: its message, whether it
\* has an own 'error' property, and one further property (statusCode).
ErrorObject(hasMessage, message, hasError, statusCode) ==
    [hasMessage |-> hasMessage, message |-> message, hasError |-> hasError,
     statusCode |-> statusCode]

\* new Error(message)
NewError(message) == ErrorObject(TRUE, message, FALSE, 0)

\* the values a failing HTTP source may throw: null, undefined, or an object
\* with no message, an empty message or a message, with or without 'error'
SourceFailures ==
    {[kind |-> "null", object |-> NewError(<<>>)],
     [kind |-> "undefined", object |-> NewError(<<>>)]}
    \cup {[kind |-> "object", object |-> ErrorObject(hm, msg, he, 500)] :
            hm \in BOOLEAN, msg \in {<<"">>, <<"Network timeout">>}, he \in BOOLEAN}

\* Api._handleError, logging left to the caller: the entry it hands to
\* Logger.error and the heap after `delete data?.error`
handleError_KeepsErrorProperty(heap, error) ==
    LET message == IF error.kind = "object" /\ heap[error.ref].hasMessage
                        /\ ~IsEmptyString(heap[error.ref].message)
                   THEN heap[error.ref].message
                   ELSE <<UnknownErrorText>>
    IN  [raised |-> FALSE,
         entry |-> [sourceObject |-> ApiName, message |-> message, data |-> error],
         heap |-> heap]

\* the message read with no fallback: a missing message is logged as missing,
\* and reading .message of null or undefined raises
handleError_NoFallback(heap, error) ==
    IF error.kind /= "object"
    THEN [raised |-> TRUE,
          entry |-> [sourceObject |-> ApiName, message |-> <<>>, data |-> error],
          heap |-> heap]
    ELSE [raised |-> FALSE,
          entry |-> [sourceObject |-> ApiName,
                     message |-> IF heap[error.ref].hasMessage
                                 THEN heap[error.ref].message ELSE <<>>,
                     data |-> error],
          heap |-> [heap EXCEPT ![error.ref].hasError = FALSE]]

handleError(heap, error) ==
    LET message == IF error.kind = "object" /\ heap[error.ref].hasMessage
                        /\ ~IsEmptyString(heap[error.ref].message)
                   THEN heap[error.ref].message
                   ELSE <<UnknownErrorText>>
    IN  [raised |-> FALSE,
         entry |-> [sourceObject |-> ApiName, message |-> message, data |-> error],
         heap |-> IF error.kind = "object"
                  THEN [heap EXCEPT ![error.ref].hasError = FALSE]
                  ELSE heap]

\* an undefined request left as an observable that never notifies
RequestSource_EmptyObservable(operationId, request) ==
    IF request.defined
    THEN CASE request.method = "GET" -> [kind |-> "http", call |-> "get", message |-> <<>>]
           [] request.method = "POST" -> [kind |-> "http", call |-> "post", message |-> <<>>]
           [] request.method = "PATCH" -> [kind |-> "http", call |-> "patch", message |-> <<>>]
           [] request.method = "DELETE" -> [kind |-> "http", call |-> "delete", message |-> <<>>]
           [] OTHER -> [kind |-> "throwError", call |-> "none",
                        message |-> <<UnsupportedMethodText, request.method>>]
    ELSE [kind |-> "never", call |-> "none", message |-> <<>>]

\* the switch with no default case: an unknown method leaves an observable
\* that never notifies, and PATCH falls through to delete
RequestSource_NoDefaultCase(operationId, request) ==
    IF request.defined
    THEN CASE request.method = "GET" -> [kind |-> "http", call |-> "get", message |-> <<>>]
           [] request.method = "POST" -> [kind |-> "http", call |-> "post", message |-> <<>>]
           [] request.method = "PATCH" -> [kind |-> "http", call |-> "delete", message |-> <<>>]
           [] request.method = "DELETE" -> [kind |-> "http", call |-> "delete", message |-> <<>>]
           [] OTHER -> [kind |-> "never", call |-> "none", message |-> <<>>]
    ELSE [kind |-> "throwError", call |-> "none",
          message |-> <<InvalidRequestText, operationId>>]

\* the observable request$ builds before the pipe: its source, and the
\* HttpClient method request$ calls to obtain it ("none" for throwError)
RequestSource(operationId, request) ==
    IF request.defined
    THEN CASE request.method = "GET" -> [kind |-> "http", call |-> "get", message |-> <<>>]
           [] request.method = "POST" -> [kind |-> "http", call |-> "post", message |-> <<>>]
           [] request.method = "PATCH" -> [kind |-> "http", call |-> "patch", message |-> <<>>]
           [] request.method = "DELETE" -> [kind |-> "http", call |-> "delete", message |-> <<>>]
           [] OTHER -> [kind |-> "throwError", call |-> "none",
                        message |-> <<UnsupportedMethodText, request.method>>]
    ELSE [kind |-> "throwError", call |-> "none",
          message |-> <<InvalidRequestText, operationId>>]

\* what a subscriber or the logger observed
Event(type, error, message) == [type |-> type, error |-> error, message |-> message]

\* A subscription: what it is subscribed to, what it observed, how often
\* its source was subscribed, and the value its source failed with (thrown,
\* with the object as it was when thrown) once it has failed.
NewSubscription(observable) ==
    [observable |-> observable, status |-> "active", events |-> <<>>,
     sourceSubscriptions |-> 1, failed |-> FALSE, thrown |-> UndefinedError,
     thrownObject |-> NewError(<<>>)]

SourceFailed(subscription, error, object) ==
    [subscription EXCEPT !.failed = TRUE, !.thrown = error, !.thrownObject = object]

\* the selector returning the caught observable: the failure is logged, the
\* source subscribed again, and the subscriber told nothing
catchError_Retry(heap, log, subscription, error) ==
    LET handled == handleError(heap, error)
    IN  [heap |-> handled.heap,
         log |-> Append(log, handled.entry),
         subscription |->
             [subscription EXCEPT
                 !.events = Append(@, Event("log", error, handled.entry.message)),
                 !.sourceSubscriptions = @ + 1]]

\* the catchError of request$ for a source that fails with error: the failure
\* is logged by _handleError, then throwError(() => error) notifies the
\* subscriber. A selector that raises makes the raised TypeError the error.
catchError(heap, log, subscription, error) ==
    LET handled == handleError(heap, error)
    IN  IF handled.raised
        THEN [heap |-> heap, log |-> log,
              subscription |->
                  [subscription EXCEPT
                      !.events = Append(@, Event("error", UndefinedError, <<"TypeError">>)),
                      !.status = "errored"]]
        ELSE [heap |-> handled.heap,
              log |-> Append(log, handled.entry),
              subscription |->
                  [subscription EXCEPT
                      !.events = @ \o <<Event("log", error, handled.entry.message),
                                        Event("error", error, <<>>)>>,
                      !.status = "errored"]]

\* ---------------------------------------------------- Configurator, Model
VARIABLES
    cfgPc,            \* "new" before the Configurator constructor, "constructed" after
    cfgInput,         \* the model given to the Configurator constructor
    cfgModel,         \* Configurator._model
    cfgReads,         \* how often Configurator.model was read
    cfgRet,           \* the outcome of the last read of Configurator.model
    runPc,            \* "idle", "called", "subscribed", "completed" or "errored"
    saveStateSpace,   \* the saveStateSpace argument given to run$
    clockTick,        \* run$'s variable clockTick
    organisation,     \* run$'s variable organisation: whether assigned yet
    orgState,         \* the state held by the simulation's Organisation object
    accumulator,      \* the array given to reduce as its seed
    runSteps,         \* the step outputs the simulation has emitted
    runEvents,        \* what the subscriber of run$ has observed
    runPerformance    \* the calls of the model's getPerformance

cfgVars == <<cfgPc, cfgInput, cfgModel, cfgReads, cfgRet>>

runVars == <<runPc, saveStateSpace, clockTick, organisation, orgState, accumulator,
             runSteps, runEvents, runPerformance>>

plVars == <<cfgVars, runVars>>

\* the model instances, by reference
ModelRefs == 1 .. MaxModels

NoModel == 0

\* the getter calling itself instead of returning _model
RECURSIVE model_SelfCall(_, _)
model_SelfCall(this, depth) ==
    IF depth > MaxCallDepth THEN Raised ELSE model_SelfCall(this, depth + 1)

\* get model(): the getter at call depth `depth`
model(this, depth) == Returned(this)

NoSaveStateSpace == [defined |-> FALSE, value |-> FALSE]

\* saveStateSpace: boolean = false
SaveStateSpaceArgs ==
    {NoSaveStateSpace} \cup {[defined |-> TRUE, value |-> v] : v \in BOOLEAN}

\* the parameter's value inside run$
DefaultSaveStateSpace(argument) == IF argument.defined THEN argument.value ELSE FALSE

OrgStates == 0 .. MaxOrgState

\* what the abstract getPerformance may return: number | undefined
PerformanceResults ==
    {[defined |-> FALSE, value |-> 0]} \cup
    {[defined |-> TRUE, value |-> p] : p \in 0 .. MaxPerformance}

\* The first map of run$: a point with the step's clock tick whose tensors
\* are the ones the organisation's getters hand out (not copies).
MapStepOutput(runOutput) ==
    [clockTick |-> runOutput.clockTick, copied |-> FALSE, state |-> 0]

\* JSON.parse(JSON.stringify(stateSpacePoint)): a point holding the values
\* the organisation has now
JsonCopyPoint(point, state) ==
    [clockTick |-> point.clockTick, copied |-> TRUE, state |-> state]

\* the state a point shows when read while the organisation holds `state`
ReadPoint(point, state) ==
    [clockTick |-> point.clockTick,
     state |-> IF point.copied THEN point.state ELSE state]

\* the reducer pushing the point itself
Reducer_NoCopy(stateSpace, stateSpacePoint, save, state) ==
    IF save THEN Append(stateSpace, stateSpacePoint) ELSE stateSpace

\* the reducer of run$
Reducer(stateSpace, stateSpacePoint, save, state) ==
    IF save THEN Append(stateSpace, JsonCopyPoint(stateSpacePoint, state))
    ELSE stateSpace

\* the resultDTO of the last map before getPerformance is applied to it
ResultDTO(tick, state, stateSpace) ==
    [clockTick |-> tick, state |-> state,
     stateSpace |-> [i \in 1 .. Len(stateSpace) |-> ReadPoint(stateSpace[i], state)],
     hasPerformance |-> FALSE, performance |-> 0]

WithPerformance(resultDTO, result) ==
    [resultDTO EXCEPT !.hasPerformance = result.defined, !.performance = result.value]

NoResult == ResultDTO(0, 0, <<>>)

RunEvent(type, result) == [type |-> type, result |-> result]

\* ---------------------------------------------------- StateSpace operations
\* new StateSpace(stateSpace)
Construct ==
    /\ ssPc = "new"
    /\ \E input \in StateSpaceInputs :
         LET elements == IF input.defined THEN input.points ELSE <<>>
             counted == ConstructAgentCount(elements)
         IN  /\ ssInput' = input
             /\ ssThis' = elements
             /\ agentCount' = IF counted.raised THEN 0 ELSE counted.value
             /\ ssPc' = IF counted.raised THEN "threw" ELSE "constructed"
    /\ UNCHANGED <<ssRet, rsVars, apiVars, plVars>>

CallRecord(op, names, outcome) ==
    [op |-> op, names |-> names, raised |-> outcome.raised, value |-> outcome.value]

NoNames == [defined |-> FALSE, length |-> 0]

CallAgentStateProbabilities ==
    /\ ssPc = "constructed"
    /\ \E names \in StateNameLists :
         ssRet' = CallRecord("agentStateProbabilities", names,
                             agentStateProbabilities(ssThis, agentCount, names))
    /\ UNCHANGED <<ssPc, ssInput, ssThis, agentCount, rsVars, apiVars, plVars>>

CallAgentStates ==
    /\ ssPc = "constructed"
    /\ ssRet' = CallRecord("agentStates", NoNames, agentStates(ssThis, agentCount))
    /\ UNCHANGED <<ssPc, ssInput, ssThis, agentCount, rsVars, apiVars, plVars>>

CallAgentStateAverage ==
    /\ ssPc = "constructed"
    /\ ssRet' = CallRecord("agentStateAverage", NoNames, agentStateAverage(ssThis, agentCount))
    /\ UNCHANGED <<ssPc, ssInput, ssThis, agentCount, rsVars, apiVars, plVars>>

CallAgentStateCoordinationMatrix ==
    /\ ssPc = "constructed"
    /\ ssRet' = CallRecord("agentStateCoordinationMatrix", NoNames,
                           agentStateCoordinationMatrix(ssThis, agentCount))
    /\ UNCHANGED <<ssPc, ssInput, ssThis, agentCount, rsVars, apiVars, plVars>>

CallToJSON ==
    /\ ssPc = "constructed"
    /\ ssRet' = CallRecord("toJSON", NoNames, toJSON(ssThis, 1))
    /\ UNCHANGED <<ssPc, ssInput, ssThis, agentCount, rsVars, apiVars, plVars>>

InitStateSpace ==
    /\ ssPc = "new"
    /\ ssInput = [defined |-> FALSE, points |-> <<>>]
    /\ ssThis = <<>>
    /\ agentCount = 0
    /\ ssRet = NoCall

NextStateSpace ==
    \/ Construct
    \/ CallAgentStateProbabilities
    \/ CallAgentStates
    \/ CallAgentStateAverage
    \/ CallAgentStateCoordinationMatrix
    \/ CallToJSON

\* ----------------------------------------------------- ResultSet operations
NoResultSetCall == [op |-> "none", raised |-> FALSE, value |-> Null]

ResultSetCall(op, outcome) == [op |-> op, raised |-> outcome.raised, value |-> outcome.value]

\* new ResultSet(results, histogramBinCount)
ConstructResultSetAction ==
    /\ rsPc = "new"
    /\ \E batch \in ResultBatches, bins \in BinCountArgs :
         LET binCount == IF bins.defined THEN bins.value ELSE DefaultHistogramBinCount
             built == ConstructResultSet(batch, binCount)
         IN  /\ rsInput' = [results |-> batch, histogramBinCount |-> bins]
             /\ results' = batch
             /\ histogramBinCount' = binCount
             /\ histogram' = built.histogram
             /\ histogramMin' = built.min
             /\ histogramMax' = built.max
             /\ histogramBinSizes' = built.binSizes
    /\ rsPc' = "constructed"
    /\ UNCHANGED <<rsRet, ssVars, apiVars, plVars>>

rsFields == <<rsPc, rsInput, results, histogramBinCount, histogram, histogramMin,
              histogramMax, histogramBinSizes>>

CallGetEntropy ==
    /\ rsPc = "constructed"
    /\ rsRet' = ResultSetCall("getEntropy", getEntropy(histogram))
    /\ UNCHANGED <<rsFields, ssVars, apiVars, plVars>>

CallGetPerformance ==
    /\ rsPc = "constructed"
    /\ rsRet' = ResultSetCall("getPerformance", getPerformance(results))
    /\ UNCHANGED <<rsFields, ssVars, apiVars, plVars>>

CallGetSummary ==
    /\ rsPc = "constructed"
    /\ rsRet' = ResultSetCall("getSummary", getSummary(results, histogram))
    /\ UNCHANGED <<rsFields, ssVars, apiVars, plVars>>

InitResultSet ==
    /\ rsPc = "new"
    /\ rsInput = [results |-> <<>>, histogramBinCount |-> [defined |-> FALSE, value |-> 0]]
    /\ results = <<>>
    /\ histogramBinCount = 0
    /\ histogram = NullHistogram
    /\ histogramMin = <<>>
    /\ histogramMax = <<>>
    /\ histogramBinSizes = <<>>
    /\ rsRet = NoResultSetCall

NextResultSet ==
    \/ ConstructResultSetAction
    \/ CallGetEntropy
    \/ CallGetPerformance
    \/ CallGetSummary

\* --------------------------------------------------------- Api operations
\* api.request$(operationId, options)
ApiRequest ==
    /\ Len(apiObservables) < MaxRequests
    /\ \E operationId \in OperationIds, request \in RequestResolutions :
         LET source == RequestSource(operationId, request)
         IN  /\ apiObservables' = Append(apiObservables,
                                         [operationId |-> operationId, request |-> request,
                                          source |-> source])
             /\ apiHttpCalls' = IF source.call = "none" THEN apiHttpCalls
                                ELSE Append(apiHttpCalls,
                                            [call |-> source.call,
                                             observable |-> Len(apiObservables) + 1])
    /\ UNCHANGED <<apiHeap, apiSubscriptions, apiLog, ssVars, rsVars, plVars>>

\* observable.subscribe(observer): a throwError source creates its error and
\* fails within the call, an HTTP source sends its request
ApiSubscribe ==
    /\ Len(apiSubscriptions) < MaxSubscriptions
    /\ \E o \in DOMAIN apiObservables :
         LET source == apiObservables[o].source
             created == Append(apiHeap, NewError(source.message))
             caught == catchError(created, apiLog,
                                  SourceFailed(NewSubscription(o), ObjectError(Len(created)),
                                               NewError(source.message)),
                                  ObjectError(Len(created)))
         IN  IF source.kind = "throwError"
             THEN /\ apiHeap' = caught.heap
                  /\ apiLog' = caught.log
                  /\ apiSubscriptions' = Append(apiSubscriptions, caught.subscription)
             ELSE /\ apiSubscriptions' = Append(apiSubscriptions, NewSubscription(o))
                  /\ UNCHANGED <<apiHeap, apiLog>>
    /\ UNCHANGED <<apiObservables, apiHttpCalls, ssVars, rsVars, plVars>>

\* the HTTP response of an active subscription arrives: next, then complete
ApiSourceRespond ==
    /\ \E s \in DOMAIN apiSubscriptions :
         /\ apiSubscriptions[s].status = "active"
         /\ apiObservables[apiSubscriptions[s].observable].source.kind = "http"
         /\ apiSubscriptions' =
                [apiSubscriptions EXCEPT
                    ![s].events = @ \o <<Event("next", UndefinedError, <<>>),
                                         Event("complete", UndefinedError, <<>>)>>,
                    ![s].status = "completed"]
    /\ UNCHANGED <<apiHeap, apiObservables, apiLog, apiHttpCalls, ssVars, rsVars, plVars>>

\* the HTTP source of an active subscription fails with some value
ApiSourceFail ==
    /\ \E s \in DOMAIN apiSubscriptions, failure \in SourceFailures :
         /\ apiSubscriptions[s].status = "active"
         /\ apiObservables[apiSubscriptions[s].observable].source.kind = "http"
         /\ LET thrown == IF failure.kind = "object"
                          THEN Append(apiHeap, failure.object) ELSE apiHeap
                error == IF failure.kind = "object" THEN ObjectError(Len(thrown))
                         ELSE IF failure.kind = "null" THEN NullError
                         ELSE UndefinedError
                caught == catchError(thrown, apiLog,
                                     SourceFailed(apiSubscriptions[s], error, failure.object),
                                     error)
            IN  /\ apiHeap' = caught.heap
                /\ apiLog' = caught.log
                /\ apiSubscriptions' = [apiSubscriptions EXCEPT ![s] = caught.subscription]
    /\ UNCHANGED <<apiObservables, apiHttpCalls, ssVars, rsVars, plVars>>

InitApi ==
    /\ apiHeap = <<>>
    /\ apiObservables = <<>>
    /\ apiSubscriptions = <<>>
    /\ apiLog = <<>>
    /\ apiHttpCalls = <<>>

NextApi ==
    \/ ApiRequest
    \/ ApiSubscribe
    \/ ApiSourceRespond
    \/ ApiSourceFail

\* ------------------------------------------ Configurator, Model operations
\* new Configurator(model, name)
ConstructConfigurator ==
    /\ cfgPc = "new"
    /\ \E m \in ModelRefs :
         /\ cfgInput' = m
         /\ cfgModel' = m
    /\ cfgPc' = "constructed"
    /\ UNCHANGED <<cfgReads, cfgRet, runVars, ssVars, rsVars, apiVars>>

\* configurator.model
ReadModel ==
    /\ cfgPc = "constructed"
    /\ cfgReads < MaxReads
    /\ cfgReads' = cfgReads + 1
    /\ cfgRet' = model(cfgModel, 1)
    /\ UNCHANGED <<cfgPc, cfgInput, cfgModel, runVars, ssVars, rsVars, apiVars>>

\* model.run$(simConfigDTO, randomStreamFactory, logger, calculationNodeId,
\* saveStateSpace): the simulation is created and the pipe is built
RunCall ==
    /\ runPc = "idle"
    /\ \E save \in SaveStateSpaceArgs, state \in OrgStates :
         /\ saveStateSpace' = save
         /\ orgState' = state
    /\ clockTick' = 0
    /\ organisation' = FALSE
    /\ accumulator' = <<>>
    /\ runPc' = "called"
    /\ UNCHANGED <<runSteps, runEvents, runPerformance, cfgVars, ssVars, rsVars, apiVars>>

\* the returned observable is subscribed
RunSubscribe ==
    /\ runPc = "called"
    /\ runPc' = "subscribed"
    /\ UNCHANGED <<saveStateSpace, clockTick, organisation, orgState, accumulator,
                   runSteps, runEvents, runPerformance, cfgVars, ssVars, rsVars, apiVars>>

\* the simulation advances its organisation and emits a step output, which
\* passes the first map and the reducer
RunStep ==
    /\ runPc = "subscribed"
    /\ Len(runSteps) < MaxSteps
    /\ \E state \in OrgStates :
         LET runOutput == [clockTick |-> Len(runSteps) + 1, state |-> state]
         IN  /\ orgState' = state
             /\ runSteps' = Append(runSteps, runOutput)
             /\ organisation' = TRUE
             /\ clockTick' = runOutput.clockTick
             /\ accumulator' = Reducer(accumulator, MapStepOutput(runOutput),
                                       DefaultSaveStateSpace(saveStateSpace), state)
    /\ UNCHANGED <<runPc, saveStateSpace, runEvents, runPerformance, cfgVars, ssVars,
                   rsVars, apiVars>>

\* The step stream completes: reduce emits its accumulator and the last map
\* builds the result. Reading the organisation when none was assigned raises
\* a TypeError, which the subscriber gets as an error.
RunComplete ==
    /\ runPc = "subscribed"
    /\ IF organisation
       THEN \E returned \in PerformanceResults :
              LET resultDTO == ResultDTO(clockTick, orgState, accumulator)
              IN  /\ runPerformance' = Append(runPerformance,
                                              [argument |-> resultDTO, returned |-> returned])
                  /\ runEvents' = runEvents \o
                         <<RunEvent("next", WithPerformance(resultDTO, returned)),
                           RunEvent("complete", NoResult)>>
                  /\ runPc' = "completed"
       ELSE /\ runEvents' = Append(runEvents, RunEvent("error", NoResult))
            /\ runPc' = "errored"
            /\ UNCHANGED runPerformance
    /\ UNCHANGED <<saveStateSpace, clockTick, organisation, orgState, accumulator,
                   runSteps, cfgVars, ssVars, rsVars, apiVars>>

InitPipeline ==
    /\ cfgPc = "new"
    /\ cfgInput = NoModel
    /\ cfgModel = NoModel
    /\ cfgReads = 0
    /\ cfgRet = Returned(NoModel)
    /\ runPc = "idle"
    /\ saveStateSpace = NoSaveStateSpace
    /\ clockTick = 0
    /\ organisation = FALSE
    /\ orgState = 0
    /\ accumulator = <<>>
    /\ runSteps = <<>>
    /\ runEvents = <<>>
    /\ runPerformance = <<>>

NextPipeline ==
    \/ ConstructConfigurator
    \/ ReadModel
    \/ RunCall
    \/ RunSubscribe
    \/ RunStep
    \/ RunComplete

vars == <<ssVars, rsVars, apiVars, plVars>>

Init == InitStateSpace /\ InitResultSet /\ InitApi /\ InitPipeline

SpecStateSpace == Init /\ [][NextStateSpace]_vars

SpecResultSet == Init /\ [][NextResultSet]_vars

SpecApi == Init /\ [][NextApi]_vars

SpecPipeline == Init /\ [][NextPipeline]_vars

\* ------------------------------------------------------ StateSpace claims
Ticks == 1 .. Len(ssThis)

Agents == 1 .. agentCount

\* every snapshot carries agentStates with one entry per counted agent
Consistent == \A tau \in Ticks :
    ssThis[tau].hasAgentStates /\ Len(ssThis[tau].agentStates) = agentCount

Called(op) == ssPc = "constructed" /\ ssRet.op = op

\* the sum of f over the finite set S
RECURSIVE SumOver(_, _)
SumOver(f, S) ==
    IF S = {} THEN 0
    ELSE LET x == CHOOSE y \in S : TRUE IN f[x] + SumOver(f, S \ {x})

\* the exact sum of a row of finite numbers, as a fraction
RECURSIVE RowSum(_, _)
RowSum(row, i) ==
    IF i = 0 THEN Int2Num(0) ELSE JsAdd(RowSum(row, i - 1), row[i])

InUnitInterval(x) == IsFinite(x) /\ 0 <= x.n /\ x.n <= Abs(x.d)

\* the ticks at which agent a's state index exists and is exactly idx
TicksInState(a, idx) ==
    {tau \in Ticks : a <= Len(ssThis[tau].agentStates) /\ ssThis[tau].agentStates[a] = idx}

\* C1: constructing from an undefined sequence, an empty sequence or one whose
\* first snapshot has no agentStates never raises and leaves agentCount 0;
\* otherwise agentCount is the length of the first snapshot's agentStates.
C1_ConstructAgentCount ==
    ssPc /= "new" =>
        /\ ssPc = "constructed"
        /\ agentCount =
              IF ~ssInput.defined \/ Len(ssInput.points) = 0
                 \/ ~ssInput.points[1].hasAgentStates
              THEN 0
              ELSE Len(ssInput.points[1].agentStates)

C1_Witness ==
    /\ ssPc = "constructed"
    /\ ssInput.defined
    /\ Len(ssInput.points) = 2
    /\ ~ssInput.points[1].hasAgentStates
    /\ ssInput.points[2].hasAgentStates
    /\ Len(ssInput.points[2].agentStates) = 2
    /\ agentCount = 0

\* C2: no StateSpace method ever raises, whatever trajectory the constructor
\* accepted and whatever state-name list is passed.
C2_NoMethodRaises == ~ssRet.raised

\* C3: for a non-empty consistent trajectory of T snapshots and N > 0 state
\* names, agentStateProbabilities returns an agentCount x N matrix whose cell
\* [a][s] is (number of snapshots where agent a's index is exactly s) / T;
\* negative indices and indices >= N are counted nowhere. The same cells are
\* returned for every trajectory on which the call returns.
C3_ProbabilityCells ==
    (Called("agentStateProbabilities") /\ ssRet.names.defined
        /\ ssRet.names.length > 0 /\ Len(ssThis) > 0) =>
        /\ Consistent => ~ssRet.raised
        /\ ~ssRet.raised =>
              /\ Len(ssRet.value) = agentCount
              /\ \A a \in Agents :
                    /\ Len(ssRet.value[a]) = ssRet.names.length
                    /\ \A s \in 1 .. ssRet.names.length :
                          ssRet.value[a][s] =
                              Num(Cardinality(TicksInState(a, s - 1)), Len(ssThis))

C3_Witness ==
    /\ Called("agentStateProbabilities")
    /\ ~ssRet.raised
    /\ Consistent
    /\ ssRet.names.length = 1
    /\ Len(ssThis) = 2
    /\ agentCount = 2
    /\ ssThis[1].agentStates = <<0, 0>>
    /\ ssThis[2].agentStates = <<1, -1>>
    /\ ssRet.value = << <<Num(1, 2)>>, <<Num(1, 2)>> >>

C5_CoordinationMatrix ==
    (Called("agentStateCoordinationMatrix") /\ Len(ssThis) > 0 /\ agentCount >= 1
        /\ Consistent) =>
        /\ ~ssRet.raised
        /\ Len(ssRet.value) = agentCount
        /\ \A a \in Agents :
              /\ Len(ssRet.value[a]) = agentCount
              /\ ssRet.value[a][a] = Int2Num(1)
              /\ \A b \in Agents :
                    /\ ssRet.value[a][b] =
                          Num(Cardinality({tau \in Ticks :
                                  ssThis[tau].agentStates[a] = ssThis[tau].agentStates[b]}),
                              Len(ssThis))
                    /\ ssRet.value[a][b] = ssRet.value[b][a]
                    /\ InUnitInterval(ssRet.value[a][b])

C5_Witness ==
    /\ Called("agentStateCoordinationMatrix")
    /\ ~ssRet.raised
    /\ Consistent
    /\ agentCount = 2
    /\ Len(ssThis) = 2
    /\ ssRet.value = << <<Int2Num(1), Num(1, 2)>>, <<Num(1, 2), Int2Num(1)>> >>

\* C6: agentStateAverage returns a vector of length agentCount whose entry a
\* is (sum of agent a's raw state indices over all T snapshots) / T, with no
\* bounds filtering of the indices.
C6_AverageIsMean ==
    (Called("agentStateAverage") /\ Consistent) =>
        /\ ~ssRet.raised
        /\ Len(ssRet.value) = agentCount
        /\ Len(ssThis) > 0 =>
              \A a \in Agents :
                  ssRet.value[a] =
                      Num(SumOver([tau \in Ticks |-> ssThis[tau].agentStates[a]], Ticks),
                          Len(ssThis))

C6_Witness ==
    /\ Called("agentStateAverage")
    /\ Consistent
    /\ agentCount = 2
    /\ Len(ssThis) = 2
    /\ ssThis[1].agentStates = <<-1, 1>>
    /\ ssThis[2].agentStates = <<0, 0>>
    /\ ssRet.value = <<Num(-1, 2), Num(1, 2)>>

\* C7: agentStates() returns the agentCount x T transpose of the trajectory:
\* result[a][t] is snapshot t's agentStates[a], unchanged even when negative
\* or out of range, in tick order.
C7_AgentStatesTranspose ==
    (Called("agentStates") /\ Consistent) =>
        /\ ~ssRet.raised
        /\ Len(ssRet.value) = agentCount
        /\ \A a \in Agents :
              /\ Len(ssRet.value[a]) = Len(ssThis)
              /\ \A tau \in Ticks :
                    ssRet.value[a][tau] = Int2Num(ssInput.points[tau].agentStates[a])

C7_Witness ==
    /\ Called("agentStates")
    /\ Consistent
    /\ agentCount = 2
    /\ Len(ssThis) = 2
    /\ ssThis[1].agentStates = <<-1, 0>>
    /\ ssThis[2].agentStates = <<1, 0>>
    /\ ssRet.value = << <<Int2Num(-1), Int2Num(1)>>, <<Int2Num(0), Int2Num(0)>> >>

\* C8: agentStateProbabilities returns exactly [[]] whenever the state-name
\* list is absent or empty or the trajectory is empty; for an empty trajectory
\* agentStateAverage and agentStateCoordinationMatrix return without raising
\* a structure with no entry other than 0 (in particular no NaN).
C8_DegenerateOutputs ==
    /\ (Called("agentStateProbabilities")
          /\ (~ssRet.names.defined \/ ssRet.names.length = 0 \/ Len(ssThis) = 0)) =>
          (~ssRet.raised /\ ssRet.value = << <<>> >>)
    /\ (Called("agentStateAverage") /\ Len(ssThis) = 0) =>
          /\ ~ssRet.raised
          /\ \A a \in 1 .. Len(ssRet.value) : ssRet.value[a] = Int2Num(0)
    /\ (Called("agentStateCoordinationMatrix") /\ Len(ssThis) = 0) =>
          /\ ~ssRet.raised
          /\ \A a \in 1 .. Len(ssRet.value) :
                \A b \in 1 .. Len(ssRet.value[a]) : ssRet.value[a][b] = Int2Num(0)

C8_Witness ==
    /\ Called("agentStateProbabilities")
    /\ Len(ssThis) = 0
    /\ ssInput.defined
    /\ ssRet.names.length = 2
    /\ ssRet.value = << <<>> >>

\* C25: toJSON() terminates for every trajectory and returns the snapshots
\* as plain data, equal in content to the trajectory.
C25_ToJSONReturnsCopy ==
    Called("toJSON") =>
        /\ ~ssRet.raised
        /\ ssRet.value = StringifyPoints(ssThis)

\* ------------------------------------------------------- ResultSet claims
ResultSetCalled(op) == rsPc = "constructed" /\ rsRet.op = op

\* the exact sum of the values of a map over the keys in keys
RECURSIVE SumValues(_, _)
SumValues(map, keys) ==
    IF keys = {} THEN Int2Num(0)
    ELSE LET key == CHOOSE q \in keys : TRUE
         IN  JsAdd(map[key], SumValues(map, keys \ {key}))

\* C9: a ResultSet built from an empty batch, for any bin count, has a null
\* histogram and empty min, max and bin-size vectors; getEntropy() returns
\* null, getPerformance() returns null for both fields, getSummary() returns
\* null for all three fields, and none of the calls raises.
C9_EmptyBatch ==
    (rsPc = "constructed" /\ Len(rsInput.results) = 0) =>
        /\ ~histogram.present
        /\ histogramMin = <<>>
        /\ histogramMax = <<>>
        /\ histogramBinSizes = <<>>
        /\ ~rsRet.raised
        /\ rsRet.op = "getEntropy" => rsRet.value = Null
        /\ rsRet.op = "getPerformance" =>
              rsRet.value = [avgPerformance |-> Null, stDevPerformance |-> Null]
        /\ rsRet.op = "getSummary" =>
              rsRet.value = [avgPerformance |-> Null, stDevPerformance |-> Null,
                             entropy |-> Null]

C9_Witness ==
    /\ ResultSetCalled("getSummary")
    /\ Len(rsInput.results) = 0
    /\ rsInput.histogramBinCount = [defined |-> TRUE, value |-> 0]
    /\ rsRet.value.entropy = Null

\* C10: for a non-empty batch of n results and any bin count the histogram is
\* a probability distribution: every stored probability is k/n for a whole
\* count k, the counts sum to n, so the probabilities sum to exactly 1 and
\* each lies in [0, 1].
C10_HistogramIsDistribution ==
    (rsPc = "constructed" /\ Len(rsInput.results) > 0) =>
        LET n == Len(rsInput.results)
            counts == [key \in DOMAIN histogram.map |->
                          JsMul(histogram.map[key], Int2Num(n))]
        IN  /\ histogram.present
            /\ \A key \in DOMAIN histogram.map :
                  /\ InUnitInterval(histogram.map[key])
                  /\ IsFinite(counts[key]) /\ counts[key].d = 1
            /\ SumValues(counts, DOMAIN counts) = Int2Num(n)
            /\ SumValues(histogram.map, DOMAIN histogram.map) = Int2Num(1)

C10_Witness ==
    /\ rsPc = "constructed"
    /\ Len(rsInput.results) = 3
    /\ histogramBinCount = 2
    /\ Cardinality(DOMAIN histogram.map) = 2
    /\ \E key \in DOMAIN histogram.map : histogram.map[key] = Num(2, 3)
    /\ \E key \in DOMAIN histogram.map : histogram.map[key] = Num(1, 3)

\* the state vectors of the batch the ResultSet holds
BatchStateVectors == [v \in 1 .. Len(results) |-> StateVector(results[v])]

NonEmptyResultSet == rsPc = "constructed" /\ Len(results) > 0

\* the quantised vector of result v under the fields the constructor left
Quantised(v) == quantiseStateVector(BatchStateVectors[v], histogramMin, histogramBinSizes)

\* x <= y on finite numbers
JsLessEq(x, y) == JsLess(x, y) \/ JsStrictEq(x, y)

C12_ZeroBinCount ==
    (NonEmptyResultSet /\ histogramBinCount = 0) =>
        /\ Len(histogramBinSizes) = Len(histogramMin)
        /\ \A i \in DOMAIN histogramBinSizes : histogramBinSizes[i] = Int2Num(0)
        /\ \A v \in DOMAIN BatchStateVectors : Quantised(v) = histogramMin
        /\ histogram.present
        /\ DOMAIN histogram.map = {JsonStringify(histogramMin)}
        /\ histogram.map[JsonStringify(histogramMin)] = Int2Num(1)
        /\ ~rsRet.raised
        /\ rsRet.op = "getEntropy" => IsZero(rsRet.value)

C12_Witness ==
    /\ ResultSetCalled("getEntropy")
    /\ rsInput.histogramBinCount = [defined |-> TRUE, value |-> 0]
    /\ Len(results) = 3
    /\ BatchStateVectors[1] /= BatchStateVectors[2]
    /\ histogramMin /= histogramMax
    /\ Cardinality(DOMAIN histogram.map) = 1
    /\ IsZero(rsRet.value)

C14_RangeAndBinSizes ==
    NonEmptyResultSet =>
        LET vecs == DOMAIN results
            vectors == [v \in vecs |-> StateVector(results[v])]
            dims == DOMAIN vectors[1]
        IN  /\ Len(vectors) = Len(results)
            /\ DOMAIN histogramMin = dims
            /\ DOMAIN histogramMax = dims
            /\ DOMAIN histogramBinSizes = dims
            /\ \A i \in dims :
                  /\ \E v \in vecs : histogramMin[i] = vectors[v][i]
                  /\ \A v \in vecs : JsLessEq(histogramMin[i], vectors[v][i])
                  /\ \E v \in vecs : histogramMax[i] = vectors[v][i]
                  /\ \A v \in vecs : JsLessEq(vectors[v][i], histogramMax[i])
                  /\ histogramBinSizes[i] =
                        IF histogramBinCount > 0
                        THEN JsDiv(JsSub(histogramMax[i], histogramMin[i]),
                                   Int2Num(histogramBinCount))
                        ELSE Int2Num(0)

C14_Witness ==
    /\ NonEmptyResultSet
    /\ histogramBinCount = 2
    /\ Len(results) = 3
    /\ BatchStateVectors[1][1] = Int2Num(1)
    /\ BatchStateVectors[2][1] = Int2Num(0)
    /\ BatchStateVectors[3][1] = Int2Num(2)
    /\ histogramMin[1] = Int2Num(0)
    /\ histogramMax[1] = Int2Num(2)
    /\ histogramBinSizes[1] = Int2Num(1)

\* C15: for a non-empty batch and any bin count getEntropy() returns a number,
\* never null: it is finite, not NaN and not below zero, and it is minus the
\* sum of p * log2(p) over the histogram entries, all of which have p > 0, so
\* log2 is never taken at 0.
C15_EntropyIsNumber ==
    (NonEmptyResultSet /\ rsRet.op = "getEntropy") =>
        LET terms == [key \in DOMAIN histogram.map |->
                         JsMul(histogram.map[key], JsLog2(histogram.map[key]))]
        IN  /\ ~rsRet.raised
            /\ IsFinite(rsRet.value)
            /\ ~JsLess(rsRet.value, Int2Num(0))
            /\ \A key \in DOMAIN histogram.map :
                  JsLess(Int2Num(0), histogram.map[key]) /\ IsFinite(terms[key])
            /\ rsRet.value = JsNeg(SumValues(terms, DOMAIN terms))

C15_Witness ==
    /\ ResultSetCalled("getEntropy")
    /\ Len(results) = 2
    /\ Cardinality(DOMAIN histogram.map) = 2
    /\ rsRet.value = Int2Num(1)

\* the performance of result i as getPerformance counts it: 0 when missing
PerformanceOrZero(i) == IF results[i].hasPerformance THEN results[i].performance ELSE 0

PerformanceTotal == SumOver([i \in DOMAIN results |-> PerformanceOrZero(i)], DOMAIN results)

\* C16: for a non-empty batch of n results avgPerformance is the sum of the
\* performances, a missing one counted as 0, divided by n: the results
\* without a performance stay in the divisor.
C16_AveragePerformance ==
    (NonEmptyResultSet /\ rsRet.op \in {"getPerformance", "getSummary"}) =>
        /\ ~rsRet.raised
        /\ rsRet.value.avgPerformance = Num(PerformanceTotal, Len(results))

C16_Witness ==
    /\ ResultSetCalled("getPerformance")
    /\ Len(results) = 3
    /\ results[1].hasPerformance
    /\ ~results[2].hasPerformance
    /\ results[3].hasPerformance
    /\ rsRet.value.avgPerformance = Num(2, 3)

\* the square of a returned standard deviation
SquareOf(x) == IF x.k = "sqrt" THEN Num(x.n, x.d) ELSE JsMul(x, x)

\* the sum over the results of (n * performance - total)^2, which is n^2
\* times the sum of the squared deviations from the mean
ScaledSquaredDeviations ==
    LET n == Len(results)
    IN  SumOver([i \in DOMAIN results |->
                    (n * PerformanceOrZero(i) - PerformanceTotal)
                        * (n * PerformanceOrZero(i) - PerformanceTotal)],
                DOMAIN results)

\* C17: stDevPerformance is null exactly when the batch has 2 or fewer
\* results. For n >= 3 it is the sample standard deviation: its square is
\* the sum of the squared deviations from the mean divided by n - 1; it is
\* never negative and it is above zero when the performances are not all
\* equal.
C17_SampleStandardDeviation ==
    (rsPc = "constructed" /\ rsRet.op \in {"getPerformance", "getSummary"}) =>
        LET n == Len(results)
            stDev == rsRet.value.stDevPerformance
        IN  /\ ~rsRet.raised
            /\ (stDev = Null) <=> (n <= 2)
            /\ n >= 3 =>
                  /\ stDev.k \in {"num", "sqrt"}
                  /\ stDev.n >= 0 /\ stDev.d > 0
                  /\ SquareOf(stDev) = Num(ScaledSquaredDeviations, n * n * (n - 1))
                  /\ (\E i, j \in DOMAIN results : PerformanceOrZero(i) /= PerformanceOrZero(j))
                        => stDev.n > 0

C17_Witness ==
    /\ ResultSetCalled("getPerformance")
    /\ Len(results) = 3
    /\ results[1].hasPerformance
    /\ ~results[2].hasPerformance
    /\ ~results[3].hasPerformance
    /\ rsRet.value.stDevPerformance = [k |-> "sqrt", n |-> 1, d |-> 3]

\* the histogram key of result v
KeyOf(v) == JsonStringify(Quantised(v))

\* C19: the histogram key is a value-equal identity of the quantised vector:
\* two results have the same key exactly when their quantised vectors are
\* equal element by element, the buckets are the keys of the results, and the
\* probability of a bucket is the share of the results that have its key,
\* whether the generic loop or the single-point branch stored it.
C19_KeyIdentity ==
    NonEmptyResultSet =>
        LET vecs == DOMAIN results
            quantised == [v \in vecs |-> Quantised(v)]
            keys == [v \in vecs |-> JsonStringify(quantised[v])]
        IN  /\ Len(quantised) = Len(results)
            /\ Len(keys) = Len(results)
            /\ DOMAIN histogram.map = {keys[v] : v \in vecs}
            /\ \A v, w \in vecs :
                  (keys[v] = keys[w]) <=>
                      (\A i \in DOMAIN quantised[v] :
                          JsStrictEq(quantised[v][i], quantised[w][i]))
            /\ \A v \in vecs :
                  histogram.map[keys[v]] =
                      Num(Cardinality({w \in vecs : keys[w] = keys[v]}), Len(results))

C19_Witness ==
    /\ NonEmptyResultSet
    /\ Len(results) = 3
    /\ BatchStateVectors[1] /= BatchStateVectors[2]
    /\ KeyOf(1) = KeyOf(2)
    /\ KeyOf(1) /= KeyOf(3)
    /\ histogram.map[KeyOf(1)] = Num(2, 3)
    /\ histogram.map[KeyOf(3)] = Num(1, 3)

\* the bin index _quantiseStateVector computes for dimension i of result v
BinIndexOf(v, i) ==
    JsFloor(JsDiv(JsSub(BatchStateVectors[v][i], histogramMin[i]), histogramBinSizes[i]))

\* C20: with a bin count of at least 1 every dimension whose maximum is above
\* its minimum is divided into exactly binCount bins: the bin index of every
\* value of the batch lies in 0 .. binCount - 1, so the dimension has at most
\* binCount distinct quantised values.
C20_BinIndexRange ==
    (NonEmptyResultSet /\ histogramBinCount >= 1) =>
        \A i \in DOMAIN histogramMin :
            JsLess(histogramMin[i], histogramMax[i]) =>
                /\ \A v \in DOMAIN BatchStateVectors :
                      /\ IsFinite(BinIndexOf(v, i))
                      /\ BinIndexOf(v, i).d = 1
                      /\ BinIndexOf(v, i).n \in 0 .. (histogramBinCount - 1)
                /\ Cardinality({Quantised(v)[i] : v \in DOMAIN BatchStateVectors})
                       <= histogramBinCount

\* the histogram the frequency loop builds for the batch, whichever branch
\* the constructor took
GenericHistogram ==
    Normalise(CountVectors(<<>>, BatchStateVectors, 1, histogramMin, histogramBinSizes),
              Len(results))

\* C27: the constructor takes the single-point branch (the texts of
\* histogramMax and histogramMin are equal) exactly when all state vectors of
\* the batch are equal in every dimension. In that case the histogram is one
\* bucket, keyed by the shared vector, with probability 1, and it is the
\* histogram the per-vector quantisation loop builds for the same batch and
\* bin count; in the other case the histogram is the loop's.
C27_SinglePointBranch ==
    NonEmptyResultSet =>
        LET vectors == BatchStateVectors
            identical == \A v \in DOMAIN vectors :
                            /\ Len(vectors[v]) = Len(vectors[1])
                            /\ \A i \in DOMAIN vectors[v] :
                                  JsStrictEq(vectors[v][i], vectors[1][i])
            generic == GenericHistogram
        IN  /\ Len(vectors) = Len(results)
            /\ (JsonStringify(histogramMax) = JsonStringify(histogramMin)) <=> identical
            /\ histogram.map = generic
            /\ identical => histogram.map = (JsonStringify(vectors[1]) :> Int2Num(1))

C27_Witness ==
    /\ NonEmptyResultSet
    /\ Len(results) = 3
    /\ histogramBinCount = 2
    /\ BatchStateVectors[1] = BatchStateVectors[2]
    /\ BatchStateVectors[2] = BatchStateVectors[3]
    /\ BatchStateVectors[1][1] = Int2Num(2)
    /\ JsonStringify(histogramMax) = JsonStringify(histogramMin)
    /\ GenericHistogram = (JsonStringify(BatchStateVectors[1]) :> Int2Num(1))
    /\ histogram.map = GenericHistogram

SubscriptionsTo(o) == {s \in DOMAIN apiSubscriptions : apiSubscriptions[s].observable = o}

\* the positions of the events of one type in a subscription
EventsOf(subscription, type) ==
    {e \in DOMAIN subscription.events : subscription.events[e].type = type}

\* the subscription ended with exactly one error and no value or completion,
\* and the error is an object whose message is the given text
FailedWithMessage(subscription, message) ==
    /\ subscription.status = "errored"
    /\ EventsOf(subscription, "next") = {}
    /\ EventsOf(subscription, "complete") = {}
    /\ Cardinality(EventsOf(subscription, "error")) = 1
    /\ \A e \in EventsOf(subscription, "error") :
          /\ subscription.events[e].error.kind = "object"
          /\ apiHeap[subscription.events[e].error.ref].hasMessage
          /\ apiHeap[subscription.events[e].error.ref].message = message

HttpCallsFor(o) == {c \in DOMAIN apiHttpCalls : apiHttpCalls[c].observable = o}

\* C21: when the API configuration returns no request for the operation id,
\* the observable of request$ gives every subscriber one error whose message
\* starts with the "Invalid request" text; no subscriber gets a value or a
\* completion or is left waiting, and no HttpClient method is called.
C21_InvalidRequest ==
    \A o \in DOMAIN apiObservables :
        ~apiObservables[o].request.defined =>
            /\ HttpCallsFor(o) = {}
            /\ \A s \in SubscriptionsTo(o) :
                  FailedWithMessage(apiSubscriptions[s],
                                    <<InvalidRequestText, apiObservables[o].operationId>>)

C21_Witness ==
    /\ Len(apiSubscriptions) = 2
    /\ \A s \in DOMAIN apiSubscriptions :
          /\ ~apiObservables[apiSubscriptions[s].observable].request.defined
          /\ apiSubscriptions[s].status = "errored"
    /\ apiHttpCalls = <<>>

\* the HttpClient method of each supported endpoint method
ClientCall == ("GET" :> "get") @@ ("POST" :> "post") @@ ("PATCH" :> "patch")
                  @@ ("DELETE" :> "delete")

\* C22: when the resolved request's method is none of GET, POST, PATCH and
\* DELETE, every subscriber gets one error whose message starts with the
\* "Unsupported HTTP method" text and no value, and no HttpClient method is
\* called; for each of the four supported methods request$ calls exactly the
\* HttpClient method of that name, once, and its result is the source.
C22_MethodRouting ==
    \A o \in DOMAIN apiObservables :
        LET request == apiObservables[o].request
            source == apiObservables[o].source
        IN  request.defined =>
                IF request.method \in DOMAIN ClientCall
                THEN /\ source.kind = "http"
                     /\ source.call = ClientCall[request.method]
                     /\ Cardinality(HttpCallsFor(o)) = 1
                     /\ \A c \in HttpCallsFor(o) :
                           apiHttpCalls[c].call = ClientCall[request.method]
                ELSE /\ HttpCallsFor(o) = {}
                     /\ \A s \in SubscriptionsTo(o) :
                           FailedWithMessage(apiSubscriptions[s],
                                             <<UnsupportedMethodText, request.method>>)

C22_Witness ==
    /\ Len(apiObservables) = 1
    /\ apiObservables[1].request = [defined |-> TRUE, method |-> "INVALID_METHOD"]
    /\ Len(apiSubscriptions) = 1
    /\ apiSubscriptions[1].status = "errored"
    /\ apiHeap[apiSubscriptions[1].thrown.ref].message = <<UnsupportedMethodText, "INVALID_METHOD">>
    /\ apiHttpCalls = <<>>

\* C23: for every subscription whose source failed with e, Logger.error was
\* called exactly once for the failure and before the subscriber's error
\* callback, the subscriber got exactly e, the source was subscribed once
\* only, and the subscription has ended.
C23_LogThenRethrow ==
    \A s \in DOMAIN apiSubscriptions :
        LET subscription == apiSubscriptions[s]
            logged == EventsOf(subscription, "log")
            errors == EventsOf(subscription, "error")
        IN  subscription.failed =>
                /\ Cardinality(logged) = 1
                /\ Cardinality(errors) = 1
                /\ \A l \in logged, e \in errors :
                      /\ l < e
                      /\ subscription.events[l].error = subscription.thrown
                      /\ subscription.events[e].error = subscription.thrown
                /\ subscription.sourceSubscriptions = 1
                /\ subscription.status = "errored"

C23_Witness ==
    /\ Len(apiSubscriptions) = 2
    /\ apiSubscriptions[1].failed
    /\ apiObservables[apiSubscriptions[1].observable].source.kind = "http"
    /\ apiSubscriptions[1].thrown.kind = "object"
    /\ apiSubscriptions[1].status = "errored"
    /\ apiSubscriptions[2].status = "completed"
    /\ Len(apiLog) = 1

\* the number of subscriptions whose source has failed
FailedSubscriptions == {s \in DOMAIN apiSubscriptions : apiSubscriptions[s].failed}

\* C24: _handleError never raises and logs exactly one entry per call, with
\* sourceObject "API": its message is the error's message when the error has
\* a non-empty one, and "Unknown error" when the error is null or undefined
\* or has no message property.
C24_HandleErrorLogs ==
    /\ Len(apiLog) = Cardinality(FailedSubscriptions)
    /\ \A l \in DOMAIN apiLog : apiLog[l].sourceObject = ApiName
    /\ \A s \in FailedSubscriptions :
          LET subscription == apiSubscriptions[s]
              thrown == subscription.thrown
              object == subscription.thrownObject
          IN  /\ \E l \in DOMAIN apiLog : apiLog[l].data = thrown
              /\ \A e \in EventsOf(subscription, "error") :
                    subscription.events[e].message /= <<"TypeError">>
              /\ \A l \in EventsOf(subscription, "log") :
                    /\ (thrown.kind = "object" /\ object.hasMessage
                            /\ ~IsEmptyString(object.message))
                          => subscription.events[l].message = object.message
                    /\ (thrown.kind /= "object" \/ ~object.hasMessage)
                          => subscription.events[l].message = <<UnknownErrorText>>

C24_Witness ==
    /\ Len(apiSubscriptions) = 2
    /\ apiSubscriptions[1].thrown = NullError
    /\ apiSubscriptions[1].failed
    /\ apiSubscriptions[2].failed
    /\ apiSubscriptions[2].thrown.kind = "object"
    /\ apiSubscriptions[2].thrownObject.hasMessage
    /\ apiLog[1].message = <<UnknownErrorText>>
    /\ apiLog[2].message = <<"Network timeout">>

\* C29: _handleError deletes the 'error' property of the very object it is
\* given: the error the subscriber receives is the thrown object itself, it
\* no longer has an 'error' property, and its other properties are as they
\* were when it was thrown.
C29_ErrorPropertyDeleted ==
    \A s \in FailedSubscriptions :
        LET subscription == apiSubscriptions[s]
        IN  subscription.thrown.kind = "object" =>
                /\ \A e \in EventsOf(subscription, "error") :
                      subscription.events[e].error = subscription.thrown
                /\ \A l \in EventsOf(subscription, "log") :
                      subscription.events[l].error = subscription.thrown
                /\ ~apiHeap[subscription.thrown.ref].hasError
                /\ apiHeap[subscription.thrown.ref] =
                       [subscription.thrownObject EXCEPT !.hasError = FALSE]

C29_Witness ==
    /\ Len(apiSubscriptions) = 1
    /\ apiSubscriptions[1].failed
    /\ apiSubscriptions[1].thrown.kind = "object"
    /\ apiSubscriptions[1].thrownObject.hasError
    /\ apiSubscriptions[1].thrownObject.statusCode = 500
    /\ ~apiHeap[apiSubscriptions[1].thrown.ref].hasError
    /\ apiHeap[apiSubscriptions[1].thrown.ref].statusCode = 500
    /\ apiSubscriptions[1].events[2].error = apiSubscriptions[1].thrown

\* ------------------------------------------- Configurator and Model claims
\* C26: reading the model property of a Configurator returns (it does not
\* recurse without end), and what it returns is the very model instance the
\* constructor was given, on the first read and on every later one.
C26_ModelGetter ==
    cfgReads > 0 => /\ ~cfgRet.raised
                    /\ cfgRet.value = cfgInput

C26_Witness ==
    /\ cfgPc = "constructed"
    /\ cfgReads >= 2
    /\ cfgInput = 2
    /\ cfgRet = Returned(2)

\* the snapshots of the emitted steps, in the order of emission
StepSnapshots ==
    [i \in 1 .. Len(runSteps) |->
        [clockTick |-> runSteps[i].clockTick, state |-> runSteps[i].state]]

EventTypes == [i \in 1 .. Len(runEvents) |-> runEvents[i].type]

\* C30: the subscriber of run$ gets nothing before the step stream completes.
\* When the stream has emitted k >= 1 steps and completes, the subscriber
\* gets exactly one result and then the completion; the result's stateSpace
\* is the k snapshots as they were when emitted, in order, when saveStateSpace
\* is true, and is empty when it is false or not given; its clockTick is the
\* last step's; its performance is what getPerformance returned when called,
\* once, with that result. When the stream completes with no step, the
\* subscriber gets an error and no result.
C30_RunResult ==
    /\ runPc \in {"idle", "called", "subscribed"} => runEvents = <<>>
    /\ runPc = "completed" =>
         /\ Len(runSteps) >= 1
         /\ EventTypes = <<"next", "complete">>
         /\ LET result == runEvents[1].result
            IN  /\ result.stateSpace =
                       (IF saveStateSpace.defined /\ saveStateSpace.value
                        THEN StepSnapshots ELSE <<>>)
                /\ result.clockTick = runSteps[Len(runSteps)].clockTick
                /\ Len(runPerformance) = 1
                /\ runPerformance[1].argument.clockTick = result.clockTick
                /\ runPerformance[1].argument.state = result.state
                /\ runPerformance[1].argument.stateSpace = result.stateSpace
                /\ result.hasPerformance = runPerformance[1].returned.defined
                /\ result.performance = runPerformance[1].returned.value
    /\ runPc = "errored" =>
         /\ runSteps = <<>>
         /\ EventTypes = <<"error">>
         /\ runPerformance = <<>>

C30_Witness ==
    /\ runPc = "completed"
    /\ Len(runSteps) = 3
    /\ saveStateSpace.defined
    /\ saveStateSpace.value
    /\ runSteps[1].state /= runSteps[3].state
    /\ Len(runEvents[1].result.stateSpace) = 3
    /\ runEvents[1].result.hasPerformance

====
